---- MODULE Spec2Model ----
(***************************************************************************)
(* A state-machine model of the cv_factory data tooling:                   *)
(*   - data_loader/detector_loader.py  (build_yolo_dataset)                *)
(*   - tools/combat_unit_synthesizer.py (free placement)                   *)
(*   - tools/inventory_synthesizer.py   (grid placement)                   *)
(* Strings that the code trims are sequences of one-character strings;     *)
(* numbers printed with {:.6f} are integers in units of 10^-6.             *)
(***************************************************************************)
EXTENDS Integers, Sequences, FiniteSets, TLC

VARIABLES
    \* ---- build_yolo_dataset: inputs (the file system and the arguments)
    srcExists,        \* source_dir.is_dir()
    srcImages,        \* stems of the image files in source_dir
    sidecar,          \* stem -> the image's readability and its .txt/.json sidecars
    class_names,      \* the ID -> name dictionary, as a sequence (id = index - 1)
    val_split_ratio,  \* <<numerator, denominator>>
    permutation,      \* RandomState(42).permutation(n) of train_test_split
    \* ---- build_yolo_dataset: output directory and control state
    outExists,        \* output_dir.exists()
    outFiles,         \* the files below output_dir
    pc,               \* "idle", "loop", "returned", "raised", "done"
    exc,              \* the exception that ended the call, "" when none
    todo,             \* the (split_name, image) iterations still to run
    glob_order,       \* the order in which glob listed the images in this call
    train_files, val_files,
    prev_glob, prev_train, prev_val,   \* the same of the previous call
    runs,             \* number of calls started
    printed,          \* the warnings and the final message printed by the call
    \* ---- CombatUnitSynthesizer: inputs
    cu_library,       \* the background files and the foreground class directories
    cu_config,        \* CONFIG
    \* ---- CombatUnitSynthesizer: object and run state
    cu_pc,            \* "idle", "scene", "unit", "attempt", "raised", "done"
    cu_exc,           \* the exception that ended run(), "" when none
    cu_backgrounds,   \* self.backgrounds
    cu_class_names,   \* self.class_names
    cu_assets,        \* self.assets, indexed like cu_class_names
    cu_outFiles,      \* the files of output_dir
    cu_i,             \* the scene index of run()'s loop
    cu_scene,         \* the scene's background, protagonist and drawn num_units
    cu_units,         \* unit_classes_to_place still to handle
    cu_asset,         \* the asset picked for the current unit
    cu_attempts,      \* placement attempts used for the current unit
    cu_placed_boxes,  \* placed_boxes
    cu_yolo_labels,   \* yolo_labels
    cu_pixels,        \* pastes written into each library background buffer (lib)
                      \* and into the scene's own buffer (scene)
    cu_uses,          \* times each background (bg) and each class (protagonist)
                      \* was taken from its cycler
    \* ---- inventory_synthesizer.main: inputs
    inv_icon_files,   \* the *.png files of icons_dir, in glob order
    inv_bg_files,     \* the *.png files of bg_dir, in glob order
    inv_config,       \* CONFIG: the three probabilities (in tenths) and the grid
    \* ---- inventory_synthesizer.main: locals
    inv_pc,           \* "idle", "image", "cell", "returned", "raised", "done"
    inv_exc,          \* the exception that ended main(), "" when none
    inv_valid_icons,  \* valid_icons
    inv_distractors,  \* distractors
    inv_backgrounds,  \* backgrounds
    inv_outFiles,     \* the files of output_dir
    inv_i,            \* the image index of the synthesis loop
    inv_bg,           \* bg, the copy of the background chosen for this image
    inv_r,            \* r
    inv_c,            \* c
    inv_cells,        \* what the loop body did in each cell handled so far
    inv_labels,       \* labels
    inv_buf,          \* the buffer bg refers to: 0 a buffer of its own, k the
                      \* buffer of backgrounds[k - 1]
    inv_pixels,       \* icons written into each buffer of backgrounds
    \* ---- pipeline.py: the orchestrator
    orch_env,         \* what main() finds: the config file, the source
                      \* directory, task_registry.json, a file left at the
                      \* temporary path by an earlier process
    orch_pc,          \* the position of main() / Orchestrator.run()
    orch_exc,         \* the exception in flight
    orch_temp_path,   \* self.temp_yolo_config_path is set (not None)
    orch_temp_file,   \* run_dir/_temp_yolo_config.yaml: "absent", "stale" (left
                      \* by an earlier process) or "own" (written by this run)
    orch_cleanups,    \* calls of _cleanup
    orch_log,         \* the steps executed so far, each with its outcome
    \* ---- tools/batch_icon_extractor.py: the cutout tool
    cut_env,          \* raw_dir exists, the SAM model loads, and for each image
                      \* of the sorted list whether cv2.imread can read it
    cut_pc,           \* the position of main()
    current_idx,      \* current_idx
    cut_accessed,     \* <<i>> when images[i] was the last access, <<>> before
    input_points,     \* input_labels (one label per clicked point)
    cut_saved         \* cutouts written to output_base

buildVars == <<srcExists, srcImages, sidecar, class_names, val_split_ratio,
               permutation, outExists, outFiles, pc, exc, todo, glob_order,
               train_files, val_files, prev_glob, prev_train, prev_val, runs,
               printed>>

cuVars == <<cu_library, cu_config, cu_pc, cu_exc, cu_backgrounds, cu_class_names,
            cu_assets, cu_outFiles, cu_i, cu_scene, cu_units, cu_asset, cu_attempts,
            cu_placed_boxes, cu_yolo_labels, cu_pixels, cu_uses>>

invVars == <<inv_icon_files, inv_bg_files, inv_config, inv_pc, inv_exc,
             inv_valid_icons, inv_distractors, inv_backgrounds, inv_outFiles, inv_i,
             inv_bg, inv_r, inv_c, inv_cells, inv_labels, inv_buf, inv_pixels>>

orchVars == <<orch_env, orch_pc, orch_exc, orch_temp_path, orch_temp_file,
              orch_cleanups, orch_log>>

cutVars == <<cut_env, cut_pc, current_idx, cut_accessed, input_points, cut_saved>>

vars == <<buildVars, cuVars, invVars, orchVars, cutVars>>

\* what each tool leaves alone
notBuild == <<cuVars, invVars, orchVars, cutVars>>
notCu == <<buildVars, invVars, orchVars, cutVars>>
notInv == <<buildVars, cuVars, orchVars, cutVars>>
notOrch == <<buildVars, cuVars, invVars, cutVars>>
notCut == <<buildVars, cuVars, invVars, orchVars>>

\* ------------------------------------------------------------------ bounds
MaxStem == 2
MaxRuns == 2
MaxScenes == 2    \* NUM_IMAGES_TO_GENERATE
MaxGridImages == 2   \* CONFIG["total_images"]

\* --------------------------------------------------------------- utilities
Range(s) == {s[i] : i \in 1..Len(s)}

Orderings(S) == {s \in [1..Cardinality(S) -> S] : Range(s) = S}

Max(a, b) == IF a >= b THEN a ELSE b
Min(a, b) == IF a <= b THEN a ELSE b

SetMin(S) == CHOOSE x \in S : \A y \in S : x <= y
SetMax(S) == CHOOSE x \in S : \A y \in S : x >= y

\* ceil(num/den) and floor(num/den) for num >= 0, den > 0
Ceil(num, den) == (num + den - 1) \div den
Floor(num, den) == num \div den

\* f"{v:.6f}" of v = num/den >= 0: the nearest multiple of 10^-6, ties to even
Fmt6(num, den) ==
    LET scaled == num * 1000000
        q == scaled \div den
        r == scaled % den
    IN  IF 2 * r > den THEN q + 1
        ELSE IF 2 * r < den THEN q
        ELSE IF q % 2 = 0 THEN q ELSE q + 1

\* ------------------------------------------------------------ str.strip()
Whitespace == {" "}

RECURSIVE lstrip(_)
lstrip(s) == IF s # <<>> /\ Head(s) \in Whitespace THEN lstrip(Tail(s)) ELSE s

RECURSIVE rstrip(_)
rstrip(s) ==
    IF s # <<>> /\ s[Len(s)] \in Whitespace
    THEN rstrip(SubSeq(s, 1, Len(s) - 1))
    ELSE s

strip(s) == rstrip(lstrip(s))

\* ------------------------------------------------- the source directory
\* image files: one per stem, "<stem>.jpg" for every third stem, else "<stem>.png"
Ext(stem) == IF stem % 3 = 0 THEN "jpg" ELSE "png"

Stems == 1..MaxStem

\* raw lines of a box-text sidecar (without the line terminator)
TxtLines == << <<" ", "0", " ">>, <<" ", " ">>, <<>>, <<"1">> >>

\* shapes of a polygon-json sidecar
ShapeC == [label |-> <<" ", "c", " ">>, points |-> << <<1, 1>>, <<5, 3>>, <<3, 0>> >>]
ShapeU == [label |-> <<"u">>, points |-> << <<0, 0>>, <<2, 2>> >>]
ShapeD == [label |-> <<"d">>, points |-> << <<2, 1>>, <<8, 4>> >>]

NoTxt == [exists |-> FALSE, lines |-> <<>>]
NoJson == [exists |-> FALSE, valid |-> FALSE, shapes |-> <<>>]
Txt(lines) == [exists |-> TRUE, lines |-> lines]
Json(shapes) == [exists |-> TRUE, valid |-> TRUE, shapes |-> shapes]
BadJson == [exists |-> TRUE, valid |-> FALSE, shapes |-> <<>>]

Image(readable, txt, json) ==
    [readable |-> readable, img_h |-> 4, img_w |-> 8, txt |-> txt, json |-> json]

\* an image of another size
ImageOf(readable, txt, json, img_h, img_w) ==
    [readable |-> readable, img_h |-> img_h, img_w |-> img_w, txt |-> txt, json |-> json]

\* what one image of the source directory may look like
SidecarKinds ==
    { Image(TRUE, NoTxt, NoJson),                               \* negative image
      Image(TRUE, Txt(TxtLines), Json(<<ShapeC, ShapeU, ShapeD>>)),
      Image(TRUE, Txt(<<>>), Json(<<ShapeC, ShapeU, ShapeD>>)), \* empty box-text
      Image(TRUE, NoTxt, Json(<<ShapeC, ShapeU, ShapeD>>)),
      Image(TRUE, NoTxt, Json(<<ShapeU, ShapeU>>)),             \* only unknown labels
      ImageOf(TRUE, NoTxt, Json(<<ShapeC, ShapeD>>), 600, 900), \* sizes that round
      Image(TRUE, NoTxt, BadJson),                              \* malformed JSON
      Image(FALSE, NoTxt, Json(<<ShapeD>>)) }                   \* cv2.imread gives None

AbsentImage == Image(FALSE, NoTxt, NoJson)

ClassMaps == { <<>>, << <<"c">>, <<"d">> >>, << <<" ", "c">>, <<"d">>, <<"d">> >> }

Ratios == { <<1, 5>>, <<1, 2>> }

\* ---------------------------------------------------- the output directory
NoLabels == [txt |-> <<>>, boxes |-> <<>>]

File(dir, stem, ext, gen, labels, names) ==
    [dir |-> dir, stem |-> stem, ext |-> ext, gen |-> gen,
     labels |-> labels, names |-> names]

\* content left behind in output_dir before the first call (gen 0)
StaleFiles ==
    { File("images/train", 9, "png", 0, NoLabels, <<>>),
      File("labels/train", 1, "txt", 0, [txt |-> << <<"7">> >>, boxes |-> <<>>], <<>>),
      File("", 0, "yaml", 0, NoLabels, << <<"z">> >>) }

SamePath(f, g) == f.dir = g.dir /\ f.stem = g.stem /\ f.ext = g.ext

\* a build that merges into the existing directory instead of resetting it
rmtree_skipped(files) == files

\* shutil.rmtree(output_dir) followed by the four mkdir(parents=True)
rmtree(files) == {}

\* open(path, 'w') / shutil.copy: create or replace the file at f's path
WriteFile(files, f) == {g \in files : ~SamePath(f, g)} \cup {f}

\* ------------------------------------------------------ _parse_yolo_txt
parse_yolo_txt(txt) ==
    IF ~txt.exists THEN <<>>
    ELSE LET stripped == [i \in 1..Len(txt.lines) |-> strip(txt.lines[i])]
         IN  SelectSeq(stripped, LAMBDA l : l # <<>>)

\* --------------------------------------------------- _parse_labelme_json
\* CLASS_TO_ID = {name: i for i, name in ID_TO_CLASS.items()}: the last id wins
InClassMap(label, names) == \E i \in 1..Len(names) : names[i] = label

ClassToId(label, names) == SetMax({i \in 1..Len(names) : names[i] = label}) - 1

\* the label compared as it stands in the file
ResolveLabel_unstripped(label, names) ==
    IF InClassMap(label, names) THEN ClassToId(label, names) ELSE -1

\* label = shape['label'].strip(); the class id, or -1 when not in class_mapping
ResolveLabel(label, names) ==
    IF InClassMap(strip(label), names) THEN ClassToId(strip(label), names) ELSE -1

ShapeBox(shape, names, img_h, img_w) ==
    LET xs == {shape.points[i][1] : i \in 1..Len(shape.points)}
        ys == {shape.points[i][2] : i \in 1..Len(shape.points)}
        x_min == SetMin(xs)
        x_max == SetMax(xs)
        y_min == SetMin(ys)
        y_max == SetMax(ys)
    IN  << ResolveLabel(shape.label, names),
           Fmt6(x_min + x_max, 2 * img_w),
           Fmt6(y_min + y_max, 2 * img_h),
           Fmt6(x_max - x_min, img_w),
           Fmt6(y_max - y_min, img_h) >>

\* an unmatched label ends the file's conversion (break instead of continue)
RECURSIVE parse_labelme_json_break(_, _, _, _)
parse_labelme_json_break(shapes, names, img_h, img_w) ==
    IF shapes = <<>> THEN <<>>
    ELSE IF ResolveLabel(Head(shapes).label, names) = -1
         THEN <<>>
         ELSE <<ShapeBox(Head(shapes), names, img_h, img_w)>>
              \o parse_labelme_json_break(Tail(shapes), names, img_h, img_w)

RECURSIVE parse_labelme_json(_, _, _, _)
parse_labelme_json(shapes, names, img_h, img_w) ==
    IF shapes = <<>> THEN <<>>
    ELSE IF ResolveLabel(Head(shapes).label, names) = -1
         THEN parse_labelme_json(Tail(shapes), names, img_h, img_w)
         ELSE <<ShapeBox(Head(shapes), names, img_h, img_w)>>
              \o parse_labelme_json(Tail(shapes), names, img_h, img_w)

\* ------------------------------------------------------ train_test_split
RECURSIVE Insert(_, _)
Insert(x, s) ==
    IF s = <<>> THEN <<x>>
    ELSE IF x <= Head(s) THEN <<x>> \o s
    ELSE <<Head(s)>> \o Insert(x, Tail(s))

RECURSIVE sorted(_)
sorted(s) == IF s = <<>> THEN <<>> ELSE Insert(Head(s), sorted(Tail(s)))

\* the listing used in the order the file system gave it
ImageFiles_unsorted(png_order, jpg_order) == png_order \o jpg_order

\* sorted(list(glob("*.png")) + list(glob("*.jpg")))
ImageFiles(png_order, jpg_order) == sorted(png_order \o jpg_order)

\* sklearn: n_test = ceil(test_size * n), n_train = n - n_test
NTest(n, ratio) == Ceil(ratio[1] * n, ratio[2])

\* the test part is the head of the seeded permutation, the train part the rest
TestPart(files, ratio, perm) ==
    [i \in 1..NTest(Len(files), ratio) |-> files[perm[i]]]

\* the train part cut one position early: it shares an element with the test part
TrainPart_overlapping(files, ratio, perm) ==
    [i \in 1..(Len(files) - NTest(Len(files), ratio)) |->
        files[perm[NTest(Len(files), ratio) + i - 1]]]

TrainPart(files, ratio, perm) ==
    [i \in 1..(Len(files) - NTest(Len(files), ratio)) |->
        files[perm[NTest(Len(files), ratio) + i]]]

\* --------------------------------------------------- build_yolo_dataset
ImagesDir(split_name) == IF split_name = "train" THEN "images/train" ELSE "images/val"
LabelsDir(split_name) == IF split_name = "train" THEN "labels/train" ELSE "labels/val"

\* the try block of the polygon-json branch raises: img is None, or json.load fails
JsonBranchFails(sc) == ~sc.readable \/ ~sc.json.valid

\* the polygon-json sidecar consulted before the box-text sidecar
YoloLabels_json_first(sc, names) ==
    IF sc.json.exists
    THEN [txt |-> <<>>,
          boxes |-> parse_labelme_json(sc.json.shapes, names, sc.img_h, sc.img_w)]
    ELSE IF sc.txt.exists
    THEN [txt |-> parse_yolo_txt(sc.txt), boxes |-> <<>>]
    ELSE NoLabels

\* yolo_labels of one loop iteration that reaches the "if yolo_labels:" test
YoloLabels(sc, names) ==
    IF sc.txt.exists
    THEN [txt |-> parse_yolo_txt(sc.txt), boxes |-> <<>>]
    ELSE IF sc.json.exists
    THEN [txt |-> <<>>,
          boxes |-> parse_labelme_json(sc.json.shapes, names, sc.img_h, sc.img_w)]
    ELSE NoLabels

\* "if yolo_labels:"
WritesLabelFile(labels) == labels.txt # <<>> \/ labels.boxes # <<>>

Tagged(split_name, files) == [i \in 1..Len(files) |-> <<split_name, files[i]>>]

\* the call up to the start of the conversion loop (lines 66-95)
BuildStart ==
    /\ pc \in {"idle", "returned", "raised", "done"}
    /\ runs < MaxRuns
    /\ runs' = runs + 1
    /\ prev_train' = train_files
    /\ prev_val' = val_files
    /\ prev_glob' = glob_order
    /\ UNCHANGED <<srcExists, srcImages, sidecar, class_names, val_split_ratio, permutation>>
    /\ UNCHANGED notBuild
    /\ \/ \* source_dir is not a directory: warn and return
          /\ ~srcExists
          /\ pc' = "returned"
          /\ exc' = ""
          /\ printed' = <<[kind |-> "no_source", labels |-> {}]>>
          /\ todo' = <<>>
          /\ glob_order' = <<>>
          /\ train_files' = <<>>
          /\ val_files' = <<>>
          /\ UNCHANGED <<outExists, outFiles>>
       \/ \* empty class_names: ValueError
          /\ srcExists
          /\ class_names = <<>>
          /\ pc' = "raised"
          /\ exc' = "ValueError"
          /\ printed' = <<>>
          /\ todo' = <<>>
          /\ glob_order' = <<>>
          /\ train_files' = <<>>
          /\ val_files' = <<>>
          /\ UNCHANGED <<outExists, outFiles>>
       \/ \* rmtree, mkdir, glob, split
          /\ srcExists
          /\ class_names # <<>>
          /\ outExists' = TRUE
          /\ outFiles' = rmtree(outFiles)
          /\ printed' = <<>>
          /\ \E png_order \in Orderings({f \in srcImages : Ext(f) = "png"}),
                jpg_order \in Orderings({f \in srcImages : Ext(f) = "jpg"}) :
                LET image_files == ImageFiles(png_order, jpg_order)
                    n == Len(image_files)
                IN  /\ glob_order' = png_order \o jpg_order
                    /\ IF n = 0
                       THEN /\ pc' = "raised"
                            /\ exc' = "FileNotFoundError"
                            /\ todo' = <<>>
                            /\ train_files' = <<>>
                            /\ val_files' = <<>>
                       ELSE IF n - NTest(n, val_split_ratio) = 0
                       THEN \* train_test_split: the resulting train set will be empty
                            /\ pc' = "raised"
                            /\ exc' = "ValueError"
                            /\ todo' = <<>>
                            /\ train_files' = <<>>
                            /\ val_files' = <<>>
                       ELSE /\ pc' = "loop"
                            /\ exc' = ""
                            /\ train_files' = TrainPart(image_files, val_split_ratio, permutation)
                            /\ val_files' = TestPart(image_files, val_split_ratio, permutation)
                            /\ todo' = Tagged("train", train_files') \o Tagged("val", val_files')

\* one iteration of the conversion loop (lines 97-119)
ProcessImage ==
    /\ pc = "loop"
    /\ todo # <<>>
    /\ LET split_name == Head(todo)[1]
           image == Head(todo)[2]
           sc == sidecar[image]
           copied == WriteFile(outFiles,
                         File(ImagesDir(split_name), image, Ext(image), runs, NoLabels, <<>>))
           yolo_labels == YoloLabels(sc, class_names)
       IN  IF ~sc.txt.exists /\ sc.json.exists /\ JsonBranchFails(sc)
           THEN \* except: print the warning, continue
                /\ outFiles' = copied
                /\ printed' = Append(printed, [kind |-> "size_failed", labels |-> {}])
           ELSE /\ outFiles' =
                     IF WritesLabelFile(yolo_labels)
                     THEN WriteFile(copied,
                              File(LabelsDir(split_name), image, "txt", runs, yolo_labels, <<>>))
                     ELSE copied
                /\ UNCHANGED printed
    /\ todo' = Tail(todo)
    /\ UNCHANGED <<srcExists, srcImages, sidecar, class_names, val_split_ratio,
                   permutation, outExists, pc, exc, glob_order, train_files,
                   val_files, prev_glob, prev_train, prev_val, runs>>
    /\ UNCHANGED notBuild

\* dataset.yaml and the final message (lines 121-132)
WriteManifest ==
    /\ pc = "loop"
    /\ todo = <<>>
    /\ outFiles' = WriteFile(outFiles, File("", 0, "yaml", runs, NoLabels, class_names))
    /\ printed' = Append(printed, [kind |-> "success", labels |-> {}])
    /\ pc' = "done"
    /\ UNCHANGED <<srcExists, srcImages, sidecar, class_names, val_split_ratio,
                   permutation, outExists, exc, todo, glob_order, train_files,
                   val_files, prev_glob, prev_train, prev_val, runs>>
    /\ UNCHANGED notBuild

BuildInit ==
    /\ srcExists \in BOOLEAN
    /\ srcImages \in SUBSET Stems
    /\ sidecar \in [Stems -> SidecarKinds \cup {AbsentImage}]
    /\ \A f \in Stems : (sidecar[f] = AbsentImage) <=> (f \notin srcImages)
    /\ srcExists \/ srcImages = {}
    /\ class_names \in ClassMaps
    /\ val_split_ratio \in Ratios
    /\ permutation \in Orderings(1..Cardinality(srcImages))
    /\ outExists \in BOOLEAN
    /\ outFiles = IF outExists THEN StaleFiles ELSE {}
    /\ pc = "idle"
    /\ exc = ""
    /\ todo = <<>>
    /\ glob_order = <<>>
    /\ prev_glob = <<>>
    /\ train_files = <<>>
    /\ val_files = <<>>
    /\ prev_train = <<>>
    /\ prev_val = <<>>
    /\ runs = 0
    /\ printed = <<>>

\* the dataset builder not in use
BuildUnused ==
    /\ srcExists = FALSE
    /\ srcImages = {}
    /\ sidecar = [f \in Stems |-> AbsentImage]
    /\ class_names = <<>>
    /\ val_split_ratio = <<1, 5>>
    /\ permutation = <<>>
    /\ outExists = FALSE
    /\ outFiles = {}
    /\ pc = "unused"
    /\ exc = ""
    /\ todo = <<>>
    /\ glob_order = <<>>
    /\ prev_glob = <<>>
    /\ train_files = <<>>
    /\ val_files = <<>>
    /\ prev_train = <<>>
    /\ prev_val = <<>>
    /\ runs = 0
    /\ printed = <<>>

\* ============================================ tools/combat_unit_synthesizer.py
\* an image file of the asset library: its size, its channels, whether cv2 reads it
Img(w, h, channels) == [w |-> w, h |-> h, channels |-> channels, readable |-> TRUE]
Unreadable == [w |-> 0, h |-> 0, channels |-> 0, readable |-> FALSE]

ClassDir(name, files) == [name |-> name, files |-> files]

\* the asset libraries: bg lists the background files in glob order, fg the class
\* directories in sorted order, each with its *.png files in glob order
Libraries ==
    { [bg |-> <<Img(3, 2, 3), Img(3, 2, 3)>>,
       fg |-> <<ClassDir("a", <<Img(2, 1, 4), Img(1, 1, 4)>>),
                ClassDir("b", <<Img(2, 2, 4)>>)>>],
      [bg |-> <<Img(3, 2, 3)>>,
       fg |-> <<ClassDir("a", <<Img(3, 2, 4)>>), ClassDir("b", <<Img(1, 2, 4)>>)>>],
      [bg |-> <<Unreadable, Img(3, 2, 3)>>,
       fg |-> <<ClassDir("a", <<Img(1, 1, 3), Unreadable>>),
                ClassDir("b", <<Img(1, 1, 4)>>)>>],
      [bg |-> <<Img(3, 2, 3)>>,
       fg |-> <<ClassDir("a", <<Img(4, 1, 4)>>)>>],
      [bg |-> <<Unreadable>>,
       fg |-> <<ClassDir("a", <<Img(1, 1, 4)>>)>>],
      [bg |-> <<Img(3, 2, 3)>>,
       fg |-> <<ClassDir("a", <<Img(1, 1, 3)>>), ClassDir("b", <<>>)>>],
      [bg |-> <<Img(3, 2, 3)>>,
       fg |-> <<ClassDir("a", <<Img(2, 1, 4)>>)>>],
      [bg |-> <<Img(3, 2, 3)>>, fg |-> <<>>] }

\* CONFIG: MIN/MAX_UNITS_PER_IMAGE, OVERLAP_THRESHOLD_IOU as a fraction,
\* MAX_PLACEMENT_ATTEMPTS
Configs ==
    [min_units : {0, 1}, max_units : {1, 2}, threshold : {<<1, 3>>, <<3, 10>>},
     max_attempts : {0, 1, 2}]

\* the union taken as the sum of the two areas
calculate_iou_areas_added(box1, box2) ==
    LET x1_inter == Max(box1[1], box2[1])
        y1_inter == Max(box1[2], box2[2])
        x2_inter == Min(box1[3], box2[3])
        y2_inter == Min(box1[4], box2[4])
        inter_area == Max(0, x2_inter - x1_inter) * Max(0, y2_inter - y1_inter)
        box1_area == (box1[3] - box1[1]) * (box1[4] - box1[2])
        box2_area == (box2[3] - box2[1]) * (box2[4] - box2[2])
    IN  IF inter_area = 0 THEN <<0, 1>> ELSE <<inter_area, box1_area + box2_area>>

\* calculate_iou, as the fraction <<inter_area, union_area>> (<<0, 1>> for 0.0)
calculate_iou(box1, box2) ==
    LET x1_inter == Max(box1[1], box2[1])
        y1_inter == Max(box1[2], box2[2])
        x2_inter == Min(box1[3], box2[3])
        y2_inter == Min(box1[4], box2[4])
        inter_area == Max(0, x2_inter - x1_inter) * Max(0, y2_inter - y1_inter)
        box1_area == (box1[3] - box1[1]) * (box1[4] - box1[2])
        box2_area == (box2[3] - box2[1]) * (box2[4] - box2[2])
        union_area == box1_area + box2_area - inter_area
    IN  IF inter_area = 0 THEN <<0, 1>> ELSE <<inter_area, union_area>>

\* a > b for fractions with positive denominators
FracGreater(a, b) == a[1] * b[2] > b[1] * a[2]

\* all() in the place of any(): true of an empty list
is_colliding_all(new_box, placed_boxes, threshold) ==
    \A i \in 1..Len(placed_boxes) :
       FracGreater(calculate_iou(new_box, placed_boxes[i]), threshold)

\* any(calculate_iou(new_box, placed_box) > threshold for placed_box in placed_boxes)
is_colliding(new_box, placed_boxes, threshold) ==
    \E i \in 1..Len(placed_boxes) :
       FracGreater(calculate_iou(new_box, placed_boxes[i]), threshold)

\* the label line of a placed asset, normalised by the size of the first background
SceneLabel(class_id, x, y, asset_w, asset_h, bg_img_w, bg_img_h) ==
    << class_id,
       Fmt6(2 * x + asset_w, 2 * bg_img_w),
       Fmt6(2 * y + asset_h, 2 * bg_img_h),
       Fmt6(asset_w, bg_img_w),
       Fmt6(asset_h, bg_img_h) >>

\* _load_assets: the images cv2 could read; assets also need four channels
LoadBackgrounds(files) == SelectSeq(files, LAMBDA f : f.readable)
LoadAssets(files) == SelectSeq(files, LAMBDA f : f.readable /\ f.channels = 4)

NoScene == [bg |-> 0, protagonist |-> 0, num_units |-> 0, buf |-> 0]

\* ndarray.copy() of a library buffer taken as handing back the buffer itself
ndarray_copy_aliased(ref) == ref

\* ndarray.copy() of library buffer ref: a new buffer, 0, owned by the scene
ndarray_copy(ref) == 0

\* next(cycle(items)) for the i-th call (i from 0): the index of the item
cycle_next_first(i, n) == 1

cycle_next(i, n) == (i % n) + 1

Zeros(n) == [k \in 1..n |-> 0]
Incremented(counts, k) == [counts EXCEPT ![k] = @ + 1]

\* a paste that always returns the background as it got it
Pastes_never(background, foreground, x, y) == FALSE

\* paste_transparent(background, foreground, position): whether it writes
Pastes(background, foreground, x, y) ==
    /\ foreground.channels >= 4
    /\ x + foreground.w <= background.w
    /\ y + foreground.h <= background.h
    /\ x >= 0
    /\ y >= 0
NoAsset == Unreadable

bg_img_w == cu_backgrounds[1].w
bg_img_h == cu_backgrounds[1].h

\* a file of output_dir: the scene index, the extension, the number of label lines
SceneFile(i, ext, lines) == [i |-> i, ext |-> ext, lines |-> lines]

cuInputs == <<cu_library, cu_config>>

\* run() up to its loop: _prepare_environment, _load_assets, the two cyclers
CuRunStart ==
    /\ cu_pc = "idle"
    /\ cu_outFiles' = {}
    /\ cu_backgrounds' = LoadBackgrounds(cu_library.bg)
    /\ IF cu_backgrounds' = <<>>
       THEN /\ cu_pc' = "raised"
            /\ cu_exc' = "FileNotFoundError"
            /\ UNCHANGED <<cu_class_names, cu_assets, cu_pixels, cu_uses>>
       ELSE /\ cu_pc' = "scene"
            /\ cu_exc' = ""
            /\ cu_pixels' = [lib |-> Zeros(Len(cu_backgrounds')), scene |-> 0]
            /\ cu_uses' = [bg |-> Zeros(Len(cu_backgrounds')),
                           protagonist |-> Zeros(Len(cu_library.fg))]
            /\ cu_class_names' = [k \in 1..Len(cu_library.fg) |-> cu_library.fg[k].name]
            /\ cu_assets' = [k \in 1..Len(cu_library.fg) |-> LoadAssets(cu_library.fg[k].files)]
    /\ UNCHANGED <<cuInputs, cu_i, cu_scene, cu_units, cu_asset, cu_attempts,
                   cu_placed_boxes, cu_yolo_labels>>
    /\ UNCHANGED notCu

\* _generate_single_scene up to its placement loop (lines 115-120)
CuSceneStart ==
    /\ cu_pc = "scene"
    /\ cu_i < MaxScenes
    /\ IF cu_class_names = <<>>
       THEN \* next(self.class_cycler) on an empty cycle, the background taken
            /\ cu_pc' = "raised"
            /\ cu_exc' = "StopIteration"
            /\ cu_uses' = [cu_uses EXCEPT
                              !.bg = Incremented(@, cycle_next(cu_i, Len(cu_backgrounds)))]
            /\ UNCHANGED <<cu_scene, cu_units, cu_pixels>>
       ELSE \E num_units \in cu_config.min_units..cu_config.max_units :
            \E others \in [1..(num_units - 1) -> 1..Len(cu_class_names)] :
            \E shuffle \in Orderings(1..(1 + Len(others))) :
               LET bg == cycle_next(cu_i, Len(cu_backgrounds))
                   protagonist == cycle_next(cu_i, Len(cu_class_names))
                   unit_classes == <<protagonist>> \o others
               IN  /\ cu_scene' = [bg |-> bg,
                                   protagonist |-> protagonist,
                                   num_units |-> num_units,
                                   buf |-> ndarray_copy(bg)]
                   /\ cu_pixels' = [cu_pixels EXCEPT !.scene = cu_pixels.lib[bg]]
                   /\ cu_uses' = [bg |-> Incremented(cu_uses.bg, bg),
                                  protagonist |-> Incremented(cu_uses.protagonist,
                                                              protagonist)]
                   /\ cu_units' = [k \in 1..Len(unit_classes) |->
                                      unit_classes[shuffle[k]]]
                   /\ cu_pc' = "unit"
                   /\ UNCHANGED cu_exc
    /\ UNCHANGED <<cuInputs, cu_backgrounds, cu_class_names, cu_assets, cu_outFiles,
                   cu_i, cu_asset, cu_attempts, cu_placed_boxes, cu_yolo_labels>>
    /\ UNCHANGED notCu

\* the head of the loop over unit_classes_to_place (lines 122-125)
CuPickAsset ==
    /\ cu_pc = "unit"
    /\ cu_units # <<>>
    /\ IF cu_assets[Head(cu_units)] = <<>>
       THEN \* if not self.assets.get(class_name): continue
            /\ cu_units' = Tail(cu_units)
            /\ UNCHANGED <<cu_pc, cu_asset, cu_attempts>>
       ELSE \E k \in 1..Len(cu_assets[Head(cu_units)]) :
               /\ cu_asset' = cu_assets[Head(cu_units)][k]
               /\ cu_attempts' = 0
               /\ cu_pc' = "attempt"
               /\ UNCHANGED cu_units
    /\ UNCHANGED <<cuInputs, cu_exc, cu_backgrounds, cu_class_names, cu_assets,
                   cu_outFiles, cu_i, cu_scene, cu_placed_boxes, cu_yolo_labels,
                   cu_pixels, cu_uses>>
    /\ UNCHANGED notCu

\* one pass of "for _ in range(MAX_PLACEMENT_ATTEMPTS)" (lines 127-140)
CuPlaceAttempt ==
    /\ cu_pc = "attempt"
    /\ cu_attempts < cu_config.max_attempts
    /\ IF cu_asset.w > bg_img_w \/ cu_asset.h > bg_img_h
       THEN \* random.randint(0, negative): ValueError
            /\ cu_pc' = "raised"
            /\ cu_exc' = "ValueError"
            /\ UNCHANGED <<cu_units, cu_attempts, cu_placed_boxes, cu_yolo_labels,
                           cu_pixels>>
       ELSE \E x \in 0..(bg_img_w - cu_asset.w), y \in 0..(bg_img_h - cu_asset.h) :
               LET new_box == <<x, y, x + cu_asset.w, y + cu_asset.h>>
               IN  IF is_colliding(new_box, cu_placed_boxes, cu_config.threshold)
                   THEN /\ cu_attempts' = cu_attempts + 1
                        /\ UNCHANGED <<cu_pc, cu_exc, cu_units, cu_placed_boxes,
                                       cu_yolo_labels, cu_pixels>>
                   ELSE /\ cu_pixels' =
                              IF ~Pastes(cu_backgrounds[cu_scene.bg], cu_asset, x, y)
                              THEN cu_pixels
                              ELSE IF cu_scene.buf = 0
                              THEN [cu_pixels EXCEPT !.scene = @ + 1]
                              ELSE [cu_pixels EXCEPT !.lib[cu_scene.buf] = @ + 1]
                        /\ cu_placed_boxes' = Append(cu_placed_boxes, new_box)
                        /\ cu_yolo_labels' =
                              Append(cu_yolo_labels,
                                     SceneLabel(Head(cu_units) - 1, x, y, cu_asset.w,
                                                cu_asset.h, bg_img_w, bg_img_h))
                        /\ cu_units' = Tail(cu_units)
                        /\ cu_pc' = "unit"
                        /\ UNCHANGED <<cu_exc, cu_attempts>>
    /\ UNCHANGED <<cuInputs, cu_backgrounds, cu_class_names, cu_assets, cu_outFiles,
                   cu_i, cu_scene, cu_asset, cu_uses>>
    /\ UNCHANGED notCu

\* the attempts are used up: the unit is dropped and the loop goes on
CuGiveUp ==
    /\ cu_pc = "attempt"
    /\ cu_attempts >= cu_config.max_attempts
    /\ cu_units' = Tail(cu_units)
    /\ cu_pc' = "unit"
    /\ UNCHANGED <<cuInputs, cu_exc, cu_backgrounds, cu_class_names, cu_assets,
                   cu_outFiles, cu_i, cu_scene, cu_asset, cu_attempts,
                   cu_placed_boxes, cu_yolo_labels, cu_pixels, cu_uses>>
    /\ UNCHANGED notCu

\* the scene is returned and saved (lines 141, 155-162)
CuWriteScene ==
    /\ cu_pc = "unit"
    /\ cu_units = <<>>
    /\ cu_outFiles' =
          cu_outFiles \cup {SceneFile(cu_i, "png", 0)}
             \cup (IF cu_yolo_labels # <<>>
                   THEN {SceneFile(cu_i, "txt", Len(cu_yolo_labels))}
                   ELSE {})
    /\ cu_i' = cu_i + 1
    /\ cu_scene' = NoScene
    /\ cu_asset' = NoAsset
    /\ cu_attempts' = 0
    /\ cu_placed_boxes' = <<>>
    /\ cu_yolo_labels' = <<>>
    /\ cu_pixels' = [cu_pixels EXCEPT !.scene = 0]
    /\ cu_pc' = "scene"
    /\ UNCHANGED <<cuInputs, cu_exc, cu_backgrounds, cu_class_names, cu_assets, cu_units,
                   cu_uses>>
    /\ UNCHANGED notCu

\* the loop of run() has made its NUM_IMAGES_TO_GENERATE scenes
CuRunDone ==
    /\ cu_pc = "scene"
    /\ cu_i >= MaxScenes
    /\ cu_pc' = "done"
    /\ UNCHANGED <<cuInputs, cu_exc, cu_backgrounds, cu_class_names, cu_assets,
                   cu_outFiles, cu_i, cu_scene, cu_units, cu_asset, cu_attempts,
                   cu_placed_boxes, cu_yolo_labels, cu_pixels, cu_uses>>
    /\ UNCHANGED notCu

CuIdle ==
    /\ cu_pc = "idle"
    /\ cu_exc = ""
    /\ cu_backgrounds = <<>>
    /\ cu_class_names = <<>>
    /\ cu_assets = <<>>
    /\ cu_i = 0
    /\ cu_scene = NoScene
    /\ cu_units = <<>>
    /\ cu_asset = NoAsset
    /\ cu_attempts = 0
    /\ cu_placed_boxes = <<>>
    /\ cu_yolo_labels = <<>>
    /\ cu_pixels = [lib |-> <<>>, scene |-> 0]
    /\ cu_uses = [bg |-> <<>>, protagonist |-> <<>>]

CuInit ==
    /\ cu_library \in Libraries
    /\ cu_config \in Configs
    /\ cu_outFiles \in {{}, {SceneFile(7, "png", 0)}}
    /\ CuIdle

\* the synthesizer not in use
CuUnused ==
    /\ cu_library = [bg |-> <<>>, fg |-> <<>>]
    /\ cu_config = [min_units |-> 1, max_units |-> 1, threshold |-> <<1, 3>>,
                    max_attempts |-> 1]
    /\ cu_outFiles = {}
    /\ CuIdle


\* =========================================== tools/inventory_synthesizer.py
\* a file of icons_dir: whether int(name.split('_')[0]) succeeds, its value, the image
Icon(parses, cls_id, img) == [parses |-> parses, cls_id |-> cls_id, img |-> img]

IconDirs ==
    { << Icon(TRUE, 1, Img(2, 2, 4)), Icon(TRUE, 900, Img(2, 2, 4)),
         Icon(TRUE, 5, Img(4, 2, 3)) >>,
      << Icon(TRUE, 1, Img(2, 4, 4)), Icon(FALSE, 0, Img(2, 2, 4)),
         Icon(TRUE, 2, Unreadable) >>,
      << Icon(TRUE, 950, Img(2, 2, 4)) >> }

BgDirs == { <<Img(12, 6, 3)>>, <<Img(12, 6, 3), Unreadable>>, <<>> }

Grid(start_x, start_y, cell_w, cell_h, cols, rows, gap_x, gap_y) ==
    [start_x |-> start_x, start_y |-> start_y, cell_w |-> cell_w, cell_h |-> cell_h,
     cols |-> cols, rows |-> rows, gap_x |-> gap_x, gap_y |-> gap_y]

Grids ==
    { Grid(2, 2, 4, 4, 2, 1, 1, 1),     \* both cells inside a 12x6 background
      Grid(1, 1, 4, 4, 2, 1, 1, 1),     \* inside, the jitter may leave the image
      Grid(5, 1, 4, 4, 2, 1, 1, 1),     \* the second cell crosses the right edge
      Grid(2, 2, 4, 1, 1, 1, 0, 0) }    \* a cell one pixel high

\* prob_empty, prob_distractor, prob_valid in tenths
Probabilities == { <<3, 2, 5>>, <<10, 0, 0>>, <<2, 2, 2>> }

\* random.random() in tenths, random.uniform(0.85, 0.95) in hundredths,
\* random.randint(-2, 2)
Draws_closed == 0..10   \* a draw that could also return 1.0
Draws == 0..9
Scales == {85, 90, 95}
Jitters == -2..2

\* overlay_image_alpha: "composited", "unchanged" (an early return img), or the
\* exception it raises
overlay_image_alpha(img, img_overlay, x, y, w, h, scale, jx, jy) ==
    LET new_w0 == (w * scale) \div 100
        new_h0 == (h * scale) \div 100
        h_src == img_overlay.h
        w_src == img_overlay.w
        wider == new_w0 * h_src > w_src * new_h0
        new_w == IF wider THEN (new_h0 * w_src) \div h_src ELSE new_w0
        new_h == IF wider THEN new_h0 ELSE (new_w0 * h_src) \div w_src
        x1 == x + ((w - new_w) \div 2) + jx
        y1 == y + ((h - new_h) \div 2) + jy
        x2 == x1 + new_w
        y2 == y1 + new_h
    IN  IF new_h0 = 0 THEN "ZeroDivisionError"
        ELSE IF new_w <= 0 \/ new_h <= 0 THEN "unchanged"
        ELSE IF y1 < 0 \/ y2 > img.h \/ x1 < 0 \/ x2 > img.w THEN "unchanged"
        ELSE "composited"

\* the label line of a cell (lines 160-167)
CellLabel(id, x, y, grid, w_bg, h_bg) ==
    << id,
       Fmt6(2 * x + grid.cell_w, 2 * w_bg),
       Fmt6(2 * y + grid.cell_h, 2 * h_bg),
       Fmt6(9 * grid.cell_w, 10 * w_bg),
       Fmt6(9 * grid.cell_h, 10 * h_bg) >>

CellX(grid, c) == grid.start_x + c * (grid.cell_w + grid.gap_x)
CellY(grid, r) == grid.start_y + r * (grid.cell_h + grid.gap_y)

\* the band of the probabilities the draw rand fell in
Band(rand, probs) ==
    IF rand < probs[1] THEN "empty"
    ELSE IF rand < probs[1] + probs[2] THEN "distractor"
    ELSE IF rand < probs[1] + probs[2] + probs[3] THEN "valid"
    ELSE "remainder"

\* what the loop body did in one cell; band is the band of its draw, icon the
\* index random.choice took in distractors or valid_icons (0 for an empty cell)
Cell(r, c, band, kind, icon, overlay, labelled) ==
    [r |-> r, c |-> c, band |-> band, kind |-> kind, icon |-> icon,
     overlay |-> overlay, labelled |-> labelled]

\* the icons that load: the name parses and cv2 reads the image (lines 89-100)
Loadable(files) == SelectSeq(files, LAMBDA f : f.parses /\ f.img.readable)
\* every icon that loads taken as a positive sample
ValidIcons_any_id(files) == Loadable(files)

ValidIcons(files) == SelectSeq(Loadable(files), LAMBDA f : f.cls_id < 900)
Distractors(files) == SelectSeq(Loadable(files), LAMBDA f : f.cls_id >= 900)

invInputs == <<inv_icon_files, inv_bg_files, inv_config>>

\* main() up to the synthesis loop (lines 80-126)
InvStart ==
    /\ inv_pc = "idle"
    /\ inv_valid_icons' = ValidIcons(inv_icon_files)
    /\ inv_distractors' = Distractors(inv_icon_files)
    /\ inv_backgrounds' = inv_bg_files
    /\ IF inv_valid_icons' = <<>> \/ inv_backgrounds' = <<>>
       THEN /\ inv_pc' = "returned"
            /\ UNCHANGED inv_outFiles
       ELSE /\ inv_pc' = "image"
            /\ inv_outFiles' = rmtree(inv_outFiles)
    /\ inv_pixels' = Zeros(Len(inv_backgrounds'))
    /\ UNCHANGED <<invInputs, inv_exc, inv_i, inv_bg, inv_r, inv_c, inv_cells, inv_labels,
                   inv_buf>>
    /\ UNCHANGED notInv

\* the head of the loop over the images (lines 128-133)
InvImageStart ==
    /\ inv_pc = "image"
    /\ inv_i < MaxGridImages
    /\ \E k \in 1..Len(inv_backgrounds) :
          IF ~inv_backgrounds[k].readable
          THEN \* None.copy()
               /\ inv_pc' = "raised"
               /\ inv_exc' = "AttributeError"
               /\ UNCHANGED <<inv_bg, inv_r, inv_c, inv_cells, inv_labels, inv_buf>>
          ELSE /\ inv_bg' = inv_backgrounds[k]
               /\ inv_buf' = ndarray_copy(k)
               /\ inv_r' = 0
               /\ inv_c' = 0
               /\ inv_cells' = <<>>
               /\ inv_labels' = <<>>
               /\ inv_pc' = "cell"
               /\ UNCHANGED inv_exc
    /\ UNCHANGED <<invInputs, inv_valid_icons, inv_distractors, inv_backgrounds,
                   inv_outFiles, inv_i, inv_pixels>>
    /\ UNCHANGED notInv

\* the body of the loops over the cells (lines 135-167)
InvCell ==
    /\ inv_pc = "cell"
    /\ inv_r < inv_config.grid.rows
    /\ inv_c < inv_config.grid.cols
    /\ \E rand \in Draws, scale \in Scales, jx \in Jitters, jy \in Jitters :
          LET grid == inv_config.grid
              prob_empty == inv_config.probs[1]
              prob_distractor == inv_config.probs[2]
              x == CellX(grid, inv_c)
              y == CellY(grid, inv_r)
          IN  IF rand < prob_empty
              THEN /\ inv_cells' = Append(inv_cells, Cell(inv_r, inv_c, Band(rand, inv_config.probs),
                                                     "empty", 0, "none", FALSE))
                   /\ UNCHANGED <<inv_labels, inv_pc, inv_exc>>
              ELSE IF rand < prob_empty + prob_distractor /\ Len(inv_distractors) > 0
              THEN \E k \in 1..Len(inv_distractors) :
                      LET done == overlay_image_alpha(inv_bg, inv_distractors[k].img, x, y,
                                      grid.cell_w, grid.cell_h, scale, jx, jy)
                      IN  IF done = "ZeroDivisionError"
                          THEN /\ inv_pc' = "raised"
                               /\ inv_exc' = done
                               /\ UNCHANGED <<inv_cells, inv_labels>>
                          ELSE /\ inv_cells' = Append(inv_cells,
                                      Cell(inv_r, inv_c, Band(rand, inv_config.probs),
                                           "distractor", k, done, FALSE))
                               /\ UNCHANGED <<inv_labels, inv_pc, inv_exc>>
              ELSE \E k \in 1..Len(inv_valid_icons) :
                      LET done == overlay_image_alpha(inv_bg, inv_valid_icons[k].img, x, y,
                                      grid.cell_w, grid.cell_h, scale, jx, jy)
                      IN  IF done = "ZeroDivisionError"
                          THEN /\ inv_pc' = "raised"
                               /\ inv_exc' = done
                               /\ UNCHANGED <<inv_cells, inv_labels>>
                          ELSE /\ inv_cells' = Append(inv_cells,
                                      Cell(inv_r, inv_c, Band(rand, inv_config.probs),
                                           "valid", k, done, TRUE))
                               /\ inv_labels' = Append(inv_labels,
                                      CellLabel(inv_valid_icons[k].cls_id, x, y, grid,
                                                inv_bg.w, inv_bg.h))
                               /\ UNCHANGED <<inv_pc, inv_exc>>
    /\ IF inv_pc' = "raised"
       THEN UNCHANGED <<inv_r, inv_c>>
       ELSE IF inv_c + 1 < inv_config.grid.cols
       THEN inv_c' = inv_c + 1 /\ inv_r' = inv_r
       ELSE inv_c' = 0 /\ inv_r' = inv_r + 1
    /\ inv_pixels' =
          \* the slice assignment of overlay_image_alpha writes into the buffer of bg
          IF /\ inv_buf # 0
             /\ Len(inv_cells') > Len(inv_cells)
             /\ inv_cells'[Len(inv_cells')].overlay = "composited"
          THEN Incremented(inv_pixels, inv_buf)
          ELSE inv_pixels
    /\ UNCHANGED <<invInputs, inv_valid_icons, inv_distractors, inv_backgrounds,
                   inv_outFiles, inv_i, inv_bg, inv_buf>>
    /\ UNCHANGED notInv

\* the image and its label file are saved (lines 170-173)
InvWrite ==
    /\ inv_pc = "cell"
    /\ inv_r >= inv_config.grid.rows \/ inv_config.grid.cols = 0
    /\ inv_outFiles' = inv_outFiles \cup {SceneFile(inv_i, "jpg", 0),
                                          SceneFile(inv_i, "txt", Len(inv_labels))}
    /\ inv_i' = inv_i + 1
    /\ inv_pc' = "image"
    /\ UNCHANGED <<invInputs, inv_exc, inv_valid_icons, inv_distractors, inv_backgrounds,
                   inv_bg, inv_r, inv_c, inv_cells, inv_labels, inv_buf, inv_pixels>>
    /\ UNCHANGED notInv

\* the synthesis loop has made its total_images images
InvDone ==
    /\ inv_pc = "image"
    /\ inv_i >= MaxGridImages
    /\ inv_pc' = "done"
    /\ UNCHANGED <<invInputs, inv_exc, inv_valid_icons, inv_distractors, inv_backgrounds,
                   inv_outFiles, inv_i, inv_bg, inv_r, inv_c, inv_cells, inv_labels,
                   inv_buf, inv_pixels>>
    /\ UNCHANGED notInv

InvIdle ==
    /\ inv_pc = "idle"
    /\ inv_exc = ""
    /\ inv_valid_icons = <<>>
    /\ inv_distractors = <<>>
    /\ inv_backgrounds = <<>>
    /\ inv_i = 0
    /\ inv_bg = Unreadable
    /\ inv_r = 0
    /\ inv_c = 0
    /\ inv_cells = <<>>
    /\ inv_labels = <<>>
    /\ inv_buf = 0
    /\ inv_pixels = <<>>

InvInit ==
    /\ inv_icon_files \in IconDirs
    /\ inv_bg_files \in BgDirs
    /\ inv_config \in [probs : Probabilities, grid : Grids]
    /\ inv_outFiles \in {{}, {SceneFile(7, "jpg", 0)}}
    /\ InvIdle

\* the grid synthesizer not in use
InvUnused ==
    /\ inv_icon_files = <<>>
    /\ inv_bg_files = <<>>
    /\ inv_config = [probs |-> <<10, 0, 0>>, grid |-> Grid(0, 0, 1, 1, 0, 0, 0, 0)]
    /\ inv_outFiles = {}
    /\ InvIdle

\* ============================================================ pipeline.py
NoException == "None"

ConfigFiles == {"missing", "invalid", "valid"}
Registries == {"unreadable", "unregistered", "registered"}

\* the steps of Orchestrator.run, in the order of the source
Steps == <<"prepare", "data", "generate", "trainer", "train", "export">>

LogEntry(step, raised) == [step |-> step, raised |-> raised]

\* the step that follows every step whatever its outcome
next_step_regardless(step, raised) ==
    CASE step = "prepare" -> "data"
      [] step = "data" -> "generate"
      [] step = "generate" -> "trainer"
      [] step = "trainer" -> "train"
      [] step = "train" -> "export"
      [] OTHER -> "cleanup"

\* try: _prepare_environment(); run_data_pipeline(); run_training_pipeline()
\* finally: _cleanup(): an exception leaves the try block for the finally
\* clause, a return goes on to the next statement
next_step(step, raised) ==
    IF raised THEN "cleanup" ELSE next_step_regardless(step, raised)

\* a _cleanup that leaves the file where it is
cleanup_file_kept(path_set, file) == file

\* if self.temp_yolo_config_path and self.temp_yolo_config_path.exists():
\*     self.temp_yolo_config_path.unlink()
cleanup_file(path_set, file) ==
    IF path_set /\ file # "absent" THEN "absent" ELSE file

\* one step of the try block ends: it is logged with its outcome, an exception
\* is kept in flight, and control moves on
OrchStepEnds(step, exception) ==
    /\ orch_log' = Append(orch_log, LogEntry(step, exception # NoException))
    /\ orch_exc' = exception
    /\ orch_pc' = next_step(step, exception # NoException)

\* main(): orchestrator = Orchestrator(config_path=args.config)
OrchConstruct ==
    /\ orch_pc = "main"
    /\ LET exception ==
              CASE orch_env.config = "missing" -> "FileNotFoundError"
                [] orch_env.config = "invalid" -> "ValidationError"
                [] ~orch_env.source_dir -> "FileNotFoundError"
                [] OTHER -> NoException
       IN  /\ orch_exc' = exception
           /\ orch_pc' = IF exception = NoException THEN "prepare" ELSE "except"
    /\ orch_temp_path' = FALSE
    /\ UNCHANGED <<orch_env, orch_temp_file, orch_cleanups, orch_log>>
    /\ UNCHANGED notOrch

\* _prepare_environment(): the two mkdir calls succeed or raise
OrchPrepareEnvironment ==
    /\ orch_pc = "prepare"
    /\ \E exception \in {NoException, "OSError"} : OrchStepEnds("prepare", exception)
    /\ UNCHANGED <<orch_env, orch_temp_path, orch_temp_file, orch_cleanups>>
    /\ UNCHANGED notOrch

\* run_data_pipeline(): the registry is read, the task looked up, and the
\* builder called; the builder returns or raises
OrchRunDataPipeline ==
    /\ orch_pc = "data"
    /\ \E builder \in {NoException, "ValueError", "FileNotFoundError"} :
          OrchStepEnds("data",
             CASE orch_env.registry = "unreadable" -> "FileNotFoundError"
               [] orch_env.registry = "unregistered" -> "ValueError"
               [] OTHER -> builder)
    /\ UNCHANGED <<orch_env, orch_temp_path, orch_temp_file, orch_cleanups>>
    /\ UNCHANGED notOrch

\* run_training_pipeline(): yolo_config_path = self._generate_yolo_config();
\* the path is set before the file is opened; open() or yaml.dump can raise
OrchGenerateYoloConfig ==
    /\ orch_pc = "generate"
    /\ orch_temp_path' = TRUE
    /\ \E outcome \in {"written", "open failed", "dump failed"} :
          /\ orch_temp_file' = IF outcome = "open failed" THEN orch_temp_file ELSE "own"
          /\ OrchStepEnds("generate",
                CASE outcome = "written" -> NoException
                  [] outcome = "open failed" -> "OSError"
                  [] OTHER -> "YAMLError")
    /\ UNCHANGED <<orch_env, orch_cleanups>>
    /\ UNCHANGED notOrch

\* run_training_pipeline(): trainer = Trainer(yolo_config_path)
OrchTrainerInit ==
    /\ orch_pc = "trainer"
    /\ \E exception \in {NoException, "Exception"} : OrchStepEnds("trainer", exception)
    /\ UNCHANGED <<orch_env, orch_temp_path, orch_temp_file, orch_cleanups>>
    /\ UNCHANGED notOrch

\* run_training_pipeline(): trainer.train()
OrchTrain ==
    /\ orch_pc = "train"
    /\ \E exception \in {NoException, "Exception"} : OrchStepEnds("train", exception)
    /\ UNCHANGED <<orch_env, orch_temp_path, orch_temp_file, orch_cleanups>>
    /\ UNCHANGED notOrch

\* run_training_pipeline(): trainer.export_model(...), which re-raises what
\* the export raised
OrchExport ==
    /\ orch_pc = "export"
    /\ \E exception \in {NoException, "Exception"} : OrchStepEnds("export", exception)
    /\ UNCHANGED <<orch_env, orch_temp_path, orch_temp_file, orch_cleanups>>
    /\ UNCHANGED notOrch

\* finally: self._cleanup(); then the exception in flight, if any, goes on to
\* main()
OrchCleanup ==
    /\ orch_pc = "cleanup"
    /\ orch_temp_file' = cleanup_file(orch_temp_path, orch_temp_file)
    /\ orch_cleanups' = orch_cleanups + 1
    /\ orch_log' = Append(orch_log, LogEntry("cleanup", FALSE))
    /\ orch_pc' = IF orch_exc = NoException THEN "banner" ELSE "except"
    /\ UNCHANGED <<orch_env, orch_exc, orch_temp_path>>
    /\ UNCHANGED notOrch

\* the success banner at the end of run(); main() returns
OrchBanner ==
    /\ orch_pc = "banner"
    /\ orch_log' = Append(orch_log, LogEntry("banner", FALSE))
    /\ orch_pc' = "exit 0"
    /\ UNCHANGED <<orch_env, orch_exc, orch_temp_path, orch_temp_file, orch_cleanups>>
    /\ UNCHANGED notOrch

\* main(): except Exception: the traceback is printed, sys.exit(1)
OrchExcept ==
    /\ orch_pc = "except"
    /\ orch_exc' = NoException
    /\ orch_pc' = "exit 1"
    /\ UNCHANGED <<orch_env, orch_temp_path, orch_temp_file, orch_cleanups, orch_log>>
    /\ UNCHANGED notOrch

OrchIdle ==
    /\ orch_pc = "main"
    /\ orch_exc = NoException
    /\ orch_temp_path = FALSE
    /\ orch_cleanups = 0
    /\ orch_log = <<>>

OrchInit ==
    /\ orch_env \in [config : ConfigFiles, source_dir : BOOLEAN,
                     registry : Registries, stale_temp : BOOLEAN]
    /\ orch_temp_file = IF orch_env.stale_temp THEN "stale" ELSE "absent"
    /\ OrchIdle

\* the orchestrator not in use
OrchUnused ==
    /\ orch_env = [config |-> "missing", source_dir |-> FALSE,
                   registry |-> "unreadable", stale_temp |-> FALSE]
    /\ orch_temp_file = "absent"
    /\ OrchIdle

\* ====================================== tools/batch_icon_extractor.py
MaxImages == 3
MaxPoints == 2
MaxSaved == 1

\* the image lists: for each image whether cv2.imread returns it
ImageLists == UNION {[1..n -> BOOLEAN] : n \in 0..MaxImages}

total_images == Len(cut_env.images)

\* if current_idx < 0: current_idx = 0
\* if current_idx >= total_images: current_idx = total_images - 1
clamp(idx, total) ==
    IF idx < 0 THEN 0 ELSE IF idx >= total THEN total - 1 ELSE idx

\* images[i] of the source (the list of the source counts from 0)
imread(i) == cut_env.images[i + 1]

\* main() up to the loop: the early returns, then current_idx = 0
CutMain ==
    /\ cut_pc = "main"
    /\ IF ~cut_env.raw_dir \/ ~cut_env.model \/ cut_env.images = <<>>
       THEN cut_pc' = "returned" /\ UNCHANGED current_idx
       ELSE cut_pc' = "loop" /\ current_idx' = 0
    /\ UNCHANGED <<cut_env, cut_accessed, input_points, cut_saved>>
    /\ UNCHANGED notCut

\* the top of the outer loop: the index is clamped
CutClamp ==
    /\ cut_pc = "loop"
    /\ current_idx' = clamp(current_idx, total_images)
    /\ cut_pc' = "read"
    /\ UNCHANGED <<cut_env, cut_accessed, input_points, cut_saved>>
    /\ UNCHANGED notCut

\* img_path = images[current_idx], then the image is read: an unreadable
\* image is skipped by current_idx += 1; continue, a readable one is shown
\* with no points
CutNextImage ==
    /\ cut_pc = "read"
    /\ cut_accessed' = <<current_idx>>
    /\ IF imread(current_idx)
       THEN /\ input_points' = <<>>
            /\ cut_pc' = "shown"
            /\ UNCHANGED current_idx
       ELSE /\ current_idx' = current_idx + 1
            /\ cut_pc' = "loop"
            /\ UNCHANGED input_points
    /\ UNCHANGED <<cut_env, cut_saved>>
    /\ UNCHANGED notCut

\* mouse_callback: a click adds a point with label 1 (object) or 0 (background)
CutMouse ==
    /\ cut_pc = "shown"
    /\ Len(input_points) < MaxPoints
    /\ \E label \in {0, 1} : input_points' = Append(input_points, label)
    /\ UNCHANGED <<cut_env, cut_pc, current_idx, cut_accessed, cut_saved>>
    /\ UNCHANGED notCut

\* key 's': with a mask, the class id is asked for; an invalid id or an empty
\* mask writes nothing, otherwise the cutout is written and the points reset
CutKeySave ==
    /\ cut_pc = "shown"
    /\ \E outcome \in {"saved", "ValueError", "empty mask"} :
          IF input_points # <<>> /\ outcome = "saved"
          THEN /\ cut_saved < MaxSaved
               /\ cut_saved' = cut_saved + 1
               /\ input_points' = <<>>
          ELSE UNCHANGED <<cut_saved, input_points>>
    /\ UNCHANGED <<cut_env, cut_pc, current_idx, cut_accessed>>
    /\ UNCHANGED notCut

\* key 'r'
CutKeyReset ==
    /\ cut_pc = "shown"
    /\ input_points' = <<>>
    /\ UNCHANGED <<cut_env, cut_pc, current_idx, cut_accessed, cut_saved>>
    /\ UNCHANGED notCut

\* key 'd': current_idx += 1; break
CutKeyNext ==
    /\ cut_pc = "shown"
    /\ current_idx' = current_idx + 1
    /\ cut_pc' = "loop"
    /\ UNCHANGED <<cut_env, cut_accessed, input_points, cut_saved>>
    /\ UNCHANGED notCut

\* key 'a': current_idx -= 1; break
CutKeyPrev ==
    /\ cut_pc = "shown"
    /\ current_idx' = current_idx - 1
    /\ cut_pc' = "loop"
    /\ UNCHANGED <<cut_env, cut_accessed, input_points, cut_saved>>
    /\ UNCHANGED notCut

\* key 'q': sys.exit(0)
CutKeyQuit ==
    /\ cut_pc = "shown"
    /\ cut_pc' = "exited"
    /\ UNCHANGED <<cut_env, current_idx, cut_accessed, input_points, cut_saved>>
    /\ UNCHANGED notCut

CutIdle ==
    /\ cut_pc = "main"
    /\ current_idx = 0
    /\ cut_accessed = <<>>
    /\ input_points = <<>>
    /\ cut_saved = 0

CutInit ==
    /\ cut_env \in [raw_dir : BOOLEAN, model : BOOLEAN, images : ImageLists]
    /\ CutIdle

\* the cutout tool not in use
CutUnused ==
    /\ cut_env = [raw_dir |-> FALSE, model |-> FALSE, images |-> <<>>]
    /\ CutIdle

\* ----------------------------------------------------------- specifications
\* the dataset builder
Init == BuildInit /\ CuUnused /\ InvUnused /\ OrchUnused /\ CutUnused

Next == BuildStart \/ ProcessImage \/ WriteManifest

Spec == Init /\ [][Next]_vars

\* the free-placement synthesizer
InitFree == BuildUnused /\ CuInit /\ InvUnused /\ OrchUnused /\ CutUnused

NextFree ==
    CuRunStart \/ CuSceneStart \/ CuPickAsset \/ CuPlaceAttempt \/ CuGiveUp
       \/ CuWriteScene \/ CuRunDone

SpecFree == InitFree /\ [][NextFree]_vars

\* the grid synthesizer
InitGrid == BuildUnused /\ CuUnused /\ InvInit /\ OrchUnused /\ CutUnused

NextGrid == InvStart \/ InvImageStart \/ InvCell \/ InvWrite \/ InvDone

SpecGrid == InitGrid /\ [][NextGrid]_vars

\* the orchestrator
InitOrch == BuildUnused /\ CuUnused /\ InvUnused /\ OrchInit /\ CutUnused

NextOrch ==
    OrchConstruct \/ OrchPrepareEnvironment \/ OrchRunDataPipeline
       \/ OrchGenerateYoloConfig \/ OrchTrainerInit \/ OrchTrain \/ OrchExport
       \/ OrchCleanup \/ OrchBanner \/ OrchExcept

SpecOrch == InitOrch /\ [][NextOrch]_vars

\* the cutout tool
InitCut == BuildUnused /\ CuUnused /\ InvUnused /\ OrchUnused /\ CutInit

NextCut ==
    CutMain \/ CutClamp \/ CutNextImage \/ CutMouse \/ CutKeySave \/ CutKeyReset
       \/ CutKeyNext \/ CutKeyPrev \/ CutKeyQuit

SpecCut == InitCut /\ [][NextCut]_vars

\* the cutout tool keeps running: its own steps are taken when they can be
\* (what the user does is left open)
SpecCutLive ==
    SpecCut /\ WF_vars(CutMain) /\ WF_vars(CutClamp) /\ WF_vars(CutNextImage)

\* =================================================================== claims
ImageDirs == {"images/train", "images/val"}
LabelDirs == {"labels/train", "labels/val"}
ImagesOut == {f \in outFiles : f.dir \in ImageDirs}
LabelsOut == {f \in outFiles : f.dir \in LabelDirs}
LabelDirOf(image_dir) == IF image_dir = "images/train" THEN "labels/train" ELSE "labels/val"

\* the images whose loop iteration has run in the current call
Pending == {todo[i][2] : i \in 1..Len(todo)}
Processed == IF pc \in {"loop", "done"} THEN srcImages \ Pending ELSE {}

LabelFilesOf(stem) == {f \in LabelsOut : f.stem = stem}
SizeFailures == Len(SelectSeq(printed, LAMBDA m : m.kind = "size_failed"))

\* C1 (as claimed): after a completed build every image file of the output has
\* exactly one label file of the same stem in the matching labels directory, and
\* every label file has its image; an image with no labels still has a label file.
\* Stated for the builds in which no image was skipped by a read failure.
C1_ImageLabelOneToOne ==
    (pc = "done" /\ SizeFailures = 0) =>
        /\ \A i \in ImagesOut :
              Cardinality({l \in LabelsOut :
                              l.stem = i.stem /\ l.dir = LabelDirOf(i.dir)}) = 1
        /\ \A l \in LabelsOut :
              \E i \in ImagesOut : i.stem = l.stem /\ l.dir = LabelDirOf(i.dir)

C4_SplitIsPartition ==
    pc \in {"loop", "done"} =>
        /\ Range(train_files) \cap Range(val_files) = {}
        /\ Range(train_files) \cup Range(val_files) = srcImages
        /\ Len(train_files) + Len(val_files) = Cardinality(srcImages)
        /\ pc = "done" =>
              \A s \in srcImages :
                 /\ Cardinality({f \in ImagesOut : f.stem = s}) = 1
                 /\ \A f \in ImagesOut :
                       f.stem = s =>
                          (f.dir = "images/train" <=> s \in Range(train_files))

C4_Witness ==
    /\ pc = "done"
    /\ train_files # <<>>
    /\ val_files # <<>>
    /\ Cardinality(ImagesOut) = Cardinality(srcImages)

\* C5: two builds over the same source files with the same ratio put every file
\* in the same subset, whatever order the file system listed the files in.
C5_SplitReproducible ==
    (runs >= 2 /\ pc \in {"loop", "done"}) =>
        /\ train_files = prev_train
        /\ val_files = prev_val

\* two builds whose directory listings came in different orders
C5_Witness ==
    /\ runs >= 2
    /\ pc = "done"
    /\ prev_glob # <<>>
    /\ glob_order # prev_glob

\* the non-empty trimmed lines of a box-text file, in order
RECURSIVE NonEmptyTrimmed(_)
NonEmptyTrimmed(lines) ==
    IF lines = <<>> THEN <<>>
    ELSE IF \A i \in 1..Len(Head(lines)) : Head(lines)[i] \in Whitespace
    THEN NonEmptyTrimmed(Tail(lines))
    ELSE <<strip(Head(lines))>> \o NonEmptyTrimmed(Tail(lines))

\* C6: for every converted image: with a box-text sidecar the labels are exactly
\* its non-empty trimmed lines and the polygon-json sidecar plays no part (an
\* empty box-text file gives no labels); with only a polygon-json sidecar the
\* labels are boxes parsed from it; with neither there are no labels and no error.
C6_SourcePriority ==
    \A s \in Processed :
       LET sc == sidecar[s]
           written == LabelFilesOf(s)
       IN  /\ sc.txt.exists =>
                 /\ \A f \in written :
                       f.labels.boxes = <<>> /\ f.labels.txt = NonEmptyTrimmed(sc.txt.lines)
                 /\ written = {} <=> NonEmptyTrimmed(sc.txt.lines) = <<>>
           /\ (~sc.txt.exists /\ sc.json.exists) =>
                 \A f \in written : f.labels.txt = <<>> /\ f.labels.boxes # <<>>
           /\ (~sc.txt.exists /\ ~sc.json.exists) => written = {}
           /\ (\A t \in srcImages : ~sidecar[t].json.exists) =>
                 (SizeFailures = 0 /\ exc = "")

\* an image with an empty box-text file and a polygon-json sidecar with matching
\* shapes was converted, and one with box-text lines and a polygon-json sidecar
C6_Witness ==
    /\ pc = "done"
    /\ \E s \in Processed :
          /\ sidecar[s].txt.exists
          /\ sidecar[s].json.exists
          /\ \E i \in 1..Len(sidecar[s].json.shapes) :
                ResolveLabel(sidecar[s].json.shapes[i].label, class_names) # -1
          /\ \/ sidecar[s].txt.lines = <<>> /\ LabelFilesOf(s) = {}
             \/ \E f \in LabelFilesOf(s) : Len(f.labels.txt) = 2

\* the shapes of a file whose trimmed label is a ClassMap name
Matched(shapes, names) ==
    SelectSeq(shapes, LAMBDA sh : \E i \in 1..Len(names) : names[i] = strip(sh.label))

\* the images converted through a readable polygon-json sidecar
JsonConverted ==
    {s \in Processed : ~sidecar[s].txt.exists /\ sidecar[s].json.exists
                       /\ sidecar[s].json.valid /\ sidecar[s].readable}

\* the images whose polygon-json conversion failed (unreadable image, bad JSON)
JsonFailed ==
    {s \in Processed : ~sidecar[s].txt.exists /\ sidecar[s].json.exists
                       /\ (~sidecar[s].json.valid \/ ~sidecar[s].readable)}

\* C8: a shape whose label is not in the ClassMap is dropped without an error:
\* the file still yields one label per matching shape, in order, no warning or
\* exception is produced for it, and the loop goes on to the next image.
C8_UnmatchedShapeDropped ==
    /\ \A s \in JsonConverted :
          LET want == Matched(sidecar[s].json.shapes, class_names)
          IN  /\ want = <<>> => LabelFilesOf(s) = {}
              /\ want # <<>> =>
                    /\ LabelFilesOf(s) # {}
                    /\ \A f \in LabelFilesOf(s) :
                          /\ Len(f.labels.boxes) = Len(want)
                          /\ \A i \in 1..Len(want) :
                                f.labels.boxes[i][1] = ResolveLabel(want[i].label, class_names)
    /\ pc \in {"loop", "done"} =>
          /\ exc = ""
          /\ SizeFailures = Cardinality(JsonFailed)

\* a file with an unmatched shape between two matching ones gave two labels, and
\* the build went on to its end
C8_Witness ==
    /\ pc = "done"
    /\ \E s \in JsonConverted :
          /\ Len(sidecar[s].json.shapes) = 3
          /\ ResolveLabel(sidecar[s].json.shapes[2].label, class_names) = -1
          /\ \E f \in LabelFilesOf(s) : Len(f.labels.boxes) = 2

\* the labels, trimmed, of the converted polygon-json shapes that are in no ClassMap entry
UnmatchedSeen ==
    UNION { {strip(sidecar[s].json.shapes[i].label) : i \in
                {j \in 1..Len(sidecar[s].json.shapes) :
                    ResolveLabel(sidecar[s].json.shapes[j].label, class_names) = -1}}
            : s \in JsonConverted }

UnmatchedWarnings == SelectSeq(printed, LAMBDA m : m.kind = "unmatched")

\* C9 (as claimed): when the batch is done, the unmatched labels met during it
\* have been surfaced as exactly one aggregated warning holding each label once,
\* and no such warning is printed when there were none.
C9_UnmatchedSurfacedOnce ==
    pc = "done" =>
        IF UnmatchedSeen = {}
        THEN UnmatchedWarnings = <<>>
        ELSE /\ Len(UnmatchedWarnings) = 1
             /\ UnmatchedWarnings[1].labels = UnmatchedSeen

\* ------------------------------------------------------------------ C10
MaxLabelLen == 3
LabelChars == {" ", "c", "d"}
BoundedLabels == UNION {[1..n -> LabelChars] : n \in 0..MaxLabelLen}

\* C10: a label resolves to the same class id (or to "unmatched") as the label
\* with its surrounding whitespace removed, and a label is matched exactly when
\* its trimmed form equals a ClassMap name; the class ids written for a converted
\* polygon-json file are those of its shapes' trimmed labels.
C10_TrimInvariance ==
    /\ pc = "idle" => \A s \in BoundedLabels :
          /\ ResolveLabel(s, class_names) = ResolveLabel(strip(s), class_names)
          /\ ResolveLabel(s, class_names) # -1
                <=> \E i \in 1..Len(class_names) : class_names[i] = strip(s)
          /\ ResolveLabel(s, class_names) # -1
                => class_names[ResolveLabel(s, class_names) + 1] = strip(s)
    /\ \A s \in JsonConverted : \A f \in LabelFilesOf(s) :
          LET want == Matched(sidecar[s].json.shapes, class_names)
          IN  \A i \in 1..Len(f.labels.boxes) :
                 class_names[f.labels.boxes[i][1] + 1] = strip(want[i].label)

\* a shape labelled " c " was written with the class id of "c"
C10_Witness ==
    /\ pc = "done"
    /\ \E s \in JsonConverted :
          /\ sidecar[s].json.shapes[1].label = <<" ", "c", " ">>
          /\ \E f \in LabelFilesOf(s) :
                /\ f.labels.boxes[1][1] = ResolveLabel(<<"c">>, class_names)
                /\ class_names[f.labels.boxes[1][1] + 1] = <<"c">>

\* ------------------------------------------------------------------ C2
\* the pixels a box covers
Pixels(box) == {<<px, py>> : px \in box[1]..(box[3] - 1), py \in box[2]..(box[4] - 1)}
InterPixels(b1, b2) == Cardinality(Pixels(b1) \cap Pixels(b2))
UnionPixels(b1, b2) == Cardinality(Pixels(b1) \cup Pixels(b2))
PlacedPairs == {p \in (1..Len(cu_placed_boxes)) \X (1..Len(cu_placed_boxes)) : p[1] < p[2]}

InUnitInterval(line) == \A j \in 2..5 : 0 < line[j] /\ line[j] < 1000000

\* the cells of this image that got a label, in the order of inv_labels
LabelledCells == SelectSeq(inv_cells, LAMBDA cell : cell.labelled)

\* the box of a grid label (the cell shrunk to 0.9 about its centre) lies inside
\* the image; coordinates in twentieths of a pixel
GridBoxInside(cell) ==
    LET grid == inv_config.grid
        x == CellX(grid, cell.c)
        y == CellY(grid, cell.r)
    IN  /\ 20 * x + grid.cell_w >= 0
        /\ 20 * x + 19 * grid.cell_w <= 20 * inv_bg.w
        /\ 20 * y + grid.cell_h >= 0
        /\ 20 * y + 19 * grid.cell_h <= 20 * inv_bg.h

\* the box of a free-placement label lies inside the scene's background
FreeBoxInside(box) ==
    /\ 0 <= box[1] /\ box[1] < box[3] /\ box[3] <= cu_backgrounds[cu_scene.bg].w
    /\ 0 <= box[2] /\ box[2] < box[4] /\ box[4] <= cu_backgrounds[cu_scene.bg].h

\* C7 (as claimed): every label emitted by either scene generator has
\* 0 < cx, cy, w, h < 1 strictly and its denormalized box lies fully inside the
\* scene image, for every asset size up to the background size (free placement)
\* and every grid configuration and background the generator accepts (grid).
C7_LabelsInsideImage ==
    /\ \A k \in 1..Len(inv_labels) :
          InUnitInterval(inv_labels[k]) /\ GridBoxInside(LabelledCells[k])
    /\ \A k \in 1..Len(cu_yolo_labels) :
          InUnitInterval(cu_yolo_labels[k]) /\ FreeBoxInside(cu_placed_boxes[k])

\* ------------------------------------------------------------------ C11
\* C11 (as claimed): a configuration error is detected before any generation or
\* writing begins: the step in which a run ends with "no source images" (builder)
\* or "no backgrounds" (free placement) leaves the output directory as it was,
\* neither deleted nor created nor written.
C11_ConfigErrorBeforeWriting ==
    [][ /\ (pc' = "raised" /\ exc' = "FileNotFoundError")
              => UNCHANGED <<outExists, outFiles>>
        /\ (cu_pc' = "raised" /\ cu_exc' = "FileNotFoundError")
              => UNCHANGED cu_outFiles ]_vars

\* ------------------------------------------------------------------ C12
\* the foreground library holds no asset that loads
NoUsableAssets == \A k \in 1..Len(cu_library.fg) : LoadAssets(cu_library.fg[k].files) = <<>>
NoUsableBackgrounds == LoadBackgrounds(cu_library.bg) = <<>>

\* C12 (as claimed): every configuration error is fatal: with the source
\* directory missing or the class map empty a build never returns normally, and
\* with no usable asset or no usable background a generation run never completes.
C12_ConfigErrorsFatal ==
    /\ (~srcExists \/ class_names = <<>>) => pc \notin {"returned", "done"}
    /\ (NoUsableAssets \/ NoUsableBackgrounds) => cu_pc # "done"

\* ------------------------------------------------------------------ C13
\* C13 (as claimed): an item whose read failed (unreadable image or malformed
\* polygon-json) is skipped atomically: the loop goes on with the next item and
\* the output holds neither an image copy nor a label file for the skipped item.
C13_ReadFailureAtomic ==
    \A s \in JsonFailed :
       /\ pc \in {"loop", "done"}
       /\ \A f \in ImagesOut \cup LabelsOut : f.stem # s

\* ------------------------------------------------------------------ C14
\* the scene is complete: every unit of the scene has been handled
SceneComplete == cu_pc = "unit" /\ cu_units = <<>>

\* C14 (as claimed): every free-placement scene has at least one label of its
\* protagonist class. Stated for the scenes whose protagonist class has a usable
\* asset.
C14_ProtagonistLabelled ==
    (SceneComplete /\ cu_assets[cu_scene.protagonist] # <<>>) =>
        \E k \in 1..Len(cu_yolo_labels) : cu_yolo_labels[k][1] = cu_scene.protagonist - 1

\* ------------------------------------------------------------------ C15
\* C15: in grid placement an icon whose filename id is >= 900 is a distractor and
\* never a positive sample; no label carries a class id >= 900; every label is
\* the label of a cell that got a valid icon and carries the id of that icon;
\* a cell that got a distractor has no label.
C15_DistractorsNeverLabelled ==
    /\ inv_pc # "idle" =>
          /\ \A k \in 1..Len(inv_valid_icons) : inv_valid_icons[k].cls_id < 900
          /\ \A k \in 1..Len(inv_distractors) : inv_distractors[k].cls_id >= 900
          /\ \A f \in Range(Loadable(inv_icon_files)) :
                f.cls_id >= 900 => f \in Range(inv_distractors)
    /\ Len(inv_labels) = Len(LabelledCells)
    /\ \A k \in 1..Len(inv_labels) :
          /\ inv_labels[k][1] < 900
          /\ LabelledCells[k].kind = "valid"
          /\ inv_labels[k][1] = inv_valid_icons[LabelledCells[k].icon].cls_id
    /\ \A k \in 1..Len(inv_cells) : inv_cells[k].kind = "distractor" => ~inv_cells[k].labelled

\* an image with a composited distractor in one cell and a labelled icon in another
C15_Witness ==
    /\ inv_labels # <<>>
    /\ \E k \in 1..Len(inv_cells) :
          inv_cells[k].kind = "distractor" /\ inv_cells[k].overlay = "composited"

\* ------------------------------------------------------------------ C16
\* the listings another enumeration of the same directory could give
Enumerations(files) == Orderings(Range(files))

\* the index random.choice drew in the asset list of the unit being placed
ChoiceDrawn == CHOOSE k \in 1..Len(cu_assets[Head(cu_units)]) :
                  cu_assets[Head(cu_units)][k] = cu_asset

\* the width and height fields of the label the unit being placed gets when the
\* background directory is listed as bg_files and the class directory as
\* asset_files, the draws being the same
LabelSizeUnder(bg_files, asset_files) ==
    LET asset == LoadAssets(asset_files)[ChoiceDrawn]
        first_bg == LoadBackgrounds(bg_files)[1]
    IN  <<Fmt6(asset.w, first_bg.w), Fmt6(asset.h, first_bg.h)>>

\* C16 (as claimed): with the same directories, configuration and random draws,
\* the labels of a run do not depend on the order in which the file system
\* enumerates the background and asset files: the unit being placed gets the same
\* label size under every enumeration.
C16_EnumerationIndependent ==
    cu_pc = "attempt" =>
        \A bg_files \in Enumerations(cu_library.bg) :
        \A asset_files \in Enumerations(cu_library.fg[Head(cu_units)].files) :
           LabelSizeUnder(bg_files, asset_files) =
              <<Fmt6(cu_asset.w, bg_img_w), Fmt6(cu_asset.h, bg_img_h)>>

\* ------------------------------------------------------------------ C17
\* minUnits = maxUnits = 1 and a library of one class whose one asset loads and
\* fits inside the background
OneUnitOneAsset ==
    /\ cu_pc \notin {"idle", "raised"}
    /\ cu_config.min_units = 1
    /\ cu_config.max_units = 1
    /\ Len(cu_class_names) = 1
    /\ Len(cu_assets[1]) = 1
    /\ cu_assets[1][1].w <= bg_img_w
    /\ cu_assets[1][1].h <= bg_img_h

\* every scene written so far has a label file of exactly one line, and so has
\* the scene that is complete
OneLabelPerScene ==
    /\ \A i \in 0..(cu_i - 1) : SceneFile(i, "txt", 1) \in cu_outFiles
    /\ SceneComplete => Len(cu_yolo_labels) = 1

\* C17 (as claimed): with minUnits = maxUnits = 1 and one class of one fitting
\* asset every scene has exactly one label line, for any threshold and any
\* maxPlacementAttempts.
C17_OneLabelAnyAttempts == OneUnitOneAsset => OneLabelPerScene

\* C17 (amended): the same for any threshold and any maxPlacementAttempts of at
\* least one; with a budget of zero attempts the placement loop never runs.
C17_OneLabelWithAnAttempt ==
    (OneUnitOneAsset /\ cu_config.max_attempts >= 1) => OneLabelPerScene

\* a run of such a configuration that has written all its scenes
C17_Witness ==
    /\ OneUnitOneAsset
    /\ cu_config.max_attempts >= 1
    /\ cu_pc = "done"
    /\ cu_i = MaxScenes
    /\ SceneFile(cu_i - 1, "txt", 1) \in cu_outFiles

\* ------------------------------------------------------------------ C18
\* C18: in grid placement with prob_empty = 1.0, whatever the grid and the draws,
\* no cell of any image gets an icon or a label, and every image written has its
\* label file, which is empty.
C18_AllEmptyGrid ==
    inv_config.probs[1] = 10 =>
        /\ \A k \in 1..Len(inv_cells) :
              inv_cells[k].kind = "empty" /\ inv_cells[k].overlay = "none"
        /\ inv_labels = <<>>
        /\ \A i \in 0..(inv_i - 1) :
              /\ SceneFile(i, "jpg", 0) \in inv_outFiles
              /\ SceneFile(i, "txt", 0) \in inv_outFiles
        /\ \A f \in inv_outFiles : f.ext = "txt" /\ f.i < inv_i => f.lines = 0

\* a finished run with prob_empty = 1.0 over a grid of two cells
C18_Witness ==
    /\ inv_config.probs[1] = 10
    /\ inv_pc = "done"
    /\ inv_i = MaxGridImages
    /\ Len(inv_cells) = 2
    /\ SceneFile(inv_i - 1, "txt", 0) \in inv_outFiles

\* ------------------------------------------------------------------ C19
\* the manifests at the dataset root
Manifests == {f \in outFiles : f.dir = "" /\ f.ext = "yaml"}

\* C19 (as claimed): the manifest is the last thing a build writes: the build
\* writes it only once every train and val item has been processed, with the
\* supplied class map unchanged as names, and a build that has returned normally
\* leaves a manifest at the root.
C19_ManifestLast ==
    /\ \A f \in Manifests :
          (runs >= 1 /\ f.gen = runs) =>
             (pc = "done" /\ todo = <<>> /\ f.names = class_names)
    /\ pc \in {"returned", "done"} => Manifests # {}

\* ------------------------------------------------------------------ C20
\* the icon a cell of the current image got
CellIcon(cell) ==
    IF cell.kind = "distractor" THEN inv_distractors[cell.icon]
    ELSE inv_valid_icons[cell.icon]

\* C20 (as claimed): both generators admit to their asset lists only images
\* with an alpha channel (four channels), so an asset without one is never
\* composited into a scene.
C20_AssetsCarryAlpha ==
    /\ \A c \in 1..Len(cu_assets) : \A k \in 1..Len(cu_assets[c]) :
          cu_assets[c][k].channels = 4
    /\ \A k \in 1..Len(inv_valid_icons) : inv_valid_icons[k].img.channels = 4
    /\ \A k \in 1..Len(inv_distractors) : inv_distractors[k].img.channels = 4
    /\ \A k \in 1..Len(inv_cells) :
          inv_cells[k].overlay = "composited" => CellIcon(inv_cells[k]).img.channels = 4

\* ------------------------------------------------------------------ C21
\* C21: composing scenes leaves the loaded library as it was: no paste or icon
\* is ever written into a buffer held by the library (compositing writes only
\* into the scene's own copy of its background), and the lists of backgrounds
\* and assets stay what the load made them.
C21_LibraryUnchanged ==
    /\ \A k \in 1..Len(cu_pixels.lib) : cu_pixels.lib[k] = 0
    /\ cu_pc \in {"scene", "unit", "attempt", "done"} =>
          /\ cu_backgrounds = LoadBackgrounds(cu_library.bg)
          /\ cu_assets = [k \in 1..Len(cu_library.fg) |-> LoadAssets(cu_library.fg[k].files)]
    /\ \A k \in 1..Len(inv_pixels) : inv_pixels[k] = 0
    /\ inv_pc \in {"image", "cell", "done"} =>
          /\ inv_backgrounds = inv_bg_files
          /\ inv_valid_icons = ValidIcons(inv_icon_files)
          /\ inv_distractors = Distractors(inv_icon_files)

\* the second scene of a run is complete with two assets pasted into it
C21_Witness ==
    /\ SceneComplete
    /\ cu_i = 1
    /\ cu_pixels.scene = 2
    /\ Len(cu_pixels.lib) >= 1

\* ------------------------------------------------------------------ C22
\* a scene is being composed
InScene == cu_pc \in {"unit", "attempt"}

\* every label of the scene under composition has its box and its paste
EachPlacedOnce ==
    InScene =>
        /\ cu_attempts <= cu_config.max_attempts
        /\ Len(cu_yolo_labels) = Len(cu_placed_boxes)
        /\ Len(cu_yolo_labels) = cu_pixels.scene
        /\ cu_exc = ""

\* the step taken when the attempts of a unit are used up: the unit is dropped
\* with no label, box, paste or exception, and the loop goes on to the next unit
DroppedSilently ==
    (cu_pc = "attempt" /\ cu_attempts >= cu_config.max_attempts) =>
        /\ cu_pc' = "unit"
        /\ cu_exc' = ""
        /\ cu_units' = Tail(cu_units)
        /\ UNCHANGED <<cu_yolo_labels, cu_placed_boxes, cu_pixels, cu_outFiles>>

\* every scene begun and finished has been written
ScenesWritten ==
    cu_pc \in {"scene", "unit", "attempt", "done"} =>
        \A i \in 0..(cu_i - 1) : SceneFile(i, "png", 0) \in cu_outFiles

\* C22 (as claimed): the number of labels of a scene never exceeds the drawn N.
C22_LabelsAtMostN == InScene => Len(cu_yolo_labels) <= cu_scene.num_units

\* C22 (amended): an instance makes at most maxPlacementAttempts attempts; when
\* they are used up it is dropped with no paste, label, error or warning, the
\* remaining instances are still attempted and the scene is still written; an
\* instance that succeeds is pasted and labelled exactly once; the labels of a
\* scene, with the instances still to handle, never exceed the drawn N or, the
\* protagonist being always in the sequence, 1 when N is 0.
C22_BestEffortPlacement ==
    /\ [](/\ EachPlacedOnce
          /\ ScenesWritten
          /\ InScene => Len(cu_yolo_labels) + Len(cu_units) <= Max(cu_scene.num_units, 1))
    /\ [][DroppedSilently]_vars

\* a scene of two units is complete with one label: the last unit was dropped
\* after two colliding attempts
C22_Witness ==
    /\ SceneComplete
    /\ cu_scene.num_units = 2
    /\ Len(cu_yolo_labels) = 1
    /\ cu_config.max_attempts = 2
    /\ cu_attempts = 2

\* ------------------------------------------------------------------ C23
\* no two counts of the sequence differ by more than one
NearEqual(counts) ==
    \A a \in 1..Len(counts), b \in 1..Len(counts) : counts[a] - counts[b] <= 1

RECURSIVE Sum(_)
Sum(counts) == IF counts = <<>> THEN 0 ELSE Head(counts) + Sum(Tail(counts))

\* the scenes begun so far in this run
ScenesBegun == IF InScene THEN cu_i + 1 ELSE cu_i

\* C23: backgrounds and protagonist classes are handed out round-robin: after
\* any number of scenes every scene has taken one background and one
\* protagonist, the use counts of any two backgrounds differ by at most 1, and
\* so do the protagonist counts of any two classes.
C23_RoundRobin ==
    cu_pc \in {"scene", "unit", "attempt", "done"} =>
        /\ NearEqual(cu_uses.bg)
        /\ NearEqual(cu_uses.protagonist)
        /\ Sum(cu_uses.bg) = ScenesBegun
        /\ Sum(cu_uses.protagonist) = ScenesBegun

\* a finished run over two backgrounds and two classes, each used
C23_Witness ==
    /\ cu_pc = "done"
    /\ Len(cu_uses.bg) = 2
    /\ Len(cu_uses.protagonist) = 2
    /\ \A k \in 1..2 : cu_uses.bg[k] >= 1 /\ cu_uses.protagonist[k] >= 1

\* ------------------------------------------------------------------ C24
\* C24 (as claimed): with prob_empty + prob_distractor + prob_valid < 1 a cell
\* whose draw falls in the remainder stays empty: no icon is composited into it
\* and it gets no label.
C24_RemainderStaysEmpty ==
    \A k \in 1..Len(inv_cells) :
       inv_cells[k].band = "remainder" =>
          /\ inv_cells[k].kind = "empty"
          /\ inv_cells[k].overlay = "none"
          /\ ~inv_cells[k].labelled

\* ------------------------------------------------------------------ C25
\* C25 (as claimed): a cell whose draw falls in the distractor band
\* [prob_empty, prob_empty + prob_distractor) gets no label, whatever the icon
\* library holds, a library with no distractor included.
C25_DistractorBandUnlabelled ==
    \A k \in 1..Len(inv_cells) :
       inv_cells[k].band = "distractor" => ~inv_cells[k].labelled

\* ------------------------------------------------------------------ C26
\* C26 (as claimed): every label belongs to a cell into which a valid icon was
\* actually composited; when overlay_image_alpha leaves the image unchanged
\* (resize failure, or the jittered rectangle outside the image) the cell gets
\* no label.
C26_LabelledMeansComposited ==
    \A k \in 1..Len(inv_cells) :
       inv_cells[k].labelled =>
          inv_cells[k].kind = "valid" /\ inv_cells[k].overlay = "composited"

\* ------------------------------------------------------------------ C27
Abs(x) == IF x >= 0 THEN x ELSE -x

\* the corners <<xmin, ymin, xmax, ymax>> of the points of a shape
Corners(shape) ==
    LET xs == {shape.points[i][1] : i \in 1..Len(shape.points)}
        ys == {shape.points[i][2] : i \in 1..Len(shape.points)}
    IN  <<SetMin(xs), SetMin(ys), SetMax(xs), SetMax(ys)>>

\* the corners got back from a label line by denormalising with the image size,
\* in units of half a millionth of a pixel
Denormalized(box, img_h, img_w) ==
    << (2 * box[2] - box[4]) * img_w, (2 * box[3] - box[5]) * img_h,
       (2 * box[2] + box[4]) * img_w, (2 * box[3] + box[5]) * img_h >>

\* the same shape with its points in another order
Reordered(shape, order) ==
    [shape EXCEPT !.points = [i \in 1..Len(shape.points) |-> shape.points[order[i]]]]

\* the label lines written for the converted polygon-json shapes, each with its
\* shape and the size of its image
ConvertedBoxes ==
    UNION { UNION { { [box |-> f.labels.boxes[i],
                       shape |-> Matched(sidecar[s].json.shapes, class_names)[i],
                       img_h |-> sidecar[s].img_h,
                       img_w |-> sidecar[s].img_w]
                      : i \in 1..Len(f.labels.boxes) }
                    : f \in LabelFilesOf(s) }
            : s \in JsonConverted }

C27_BoxFromMinMax ==
    \A b \in ConvertedBoxes :
       LET c == Corners(b.shape)
           d == Denormalized(b.box, b.img_h, b.img_w)
       IN  /\ b.box[2] = Fmt6(c[1] + c[3], 2 * b.img_w)
           /\ b.box[3] = Fmt6(c[2] + c[4], 2 * b.img_h)
           /\ b.box[4] = Fmt6(c[3] - c[1], b.img_w)
           /\ b.box[5] = Fmt6(c[4] - c[2], b.img_h)
           /\ Abs(d[1] - 2000000 * c[1]) <= 2 * b.img_w
           /\ Abs(d[3] - 2000000 * c[3]) <= 2 * b.img_w
           /\ Abs(d[2] - 2000000 * c[2]) <= 2 * b.img_h
           /\ Abs(d[4] - 2000000 * c[4]) <= 2 * b.img_h
           /\ \A order \in Orderings(1..Len(b.shape.points)) :
                 ShapeBox(Reordered(b.shape, order), class_names, b.img_h, b.img_w) = b.box

\* a label file holds the box of a three-point shape on an image whose size
\* makes the six-decimal values round
RoundedBoxWritten ==
    \E b \in ConvertedBoxes :
       /\ Len(b.shape.points) = 3
       /\ b.img_w = 900
       /\ Denormalized(b.box, b.img_h, b.img_w)[1] # 2000000 * Corners(b.shape)[1]

\* ------------------------------------------------------------------ C28
\* the positions of the log that hold the given step
LogPositions(step) == {i \in 1..Len(orch_log) : orch_log[i].step = step}

\* the positions of the log that hold a step of the try block of run()
TrySteps ==
    {i \in 1..Len(orch_log) : \E k \in 1..Len(Steps) : orch_log[i].step = Steps[k]}

\* run() was entered and has ended, by return or by exception
RunEnded == orch_log # <<>> /\ orch_pc \in {"banner", "except", "exit 0", "exit 1"}

\* C28: in every execution of Orchestrator.run, whether its steps succeed or
\* raise, cleanup runs exactly once, right after the last executed step, never
\* more than once, and once run has ended the temporary configuration file
\* written by that run no longer exists.
C28_CleanupOnceAfterLastStep ==
    /\ orch_cleanups <= 1
    /\ Cardinality(LogPositions("cleanup")) = orch_cleanups
    /\ RunEnded =>
          /\ orch_cleanups = 1
          /\ LogPositions("cleanup") = {Cardinality(TrySteps) + 1}
          /\ \A i \in TrySteps : i <= Cardinality(TrySteps)
          /\ orch_temp_file # "own"

\* training raised after the configuration file had been written, and run()
\* has ended
C28_Witness ==
    /\ RunEnded
    /\ \E i \in LogPositions("train") : orch_log[i].raised
    /\ \E i \in LogPositions("generate") : ~orch_log[i].raised

\* ------------------------------------------------------------------ C29
\* the step was executed before position i and returned without an exception
ReturnedBefore(step, i) ==
    \E j \in LogPositions(step) : j < i /\ ~orch_log[j].raised

\* C29: the training pipeline starts only after data preparation returned
\* without an exception, training only after the trainer was built, export
\* only after training returned without an exception, the success banner is
\* reached only if data preparation, training and export all completed, and
\* after a step that raised nothing runs but cleanup (and main's handler).
C29_StrictSequencing ==
    /\ \A i \in LogPositions("data") : ReturnedBefore("prepare", i)
    /\ \A i \in LogPositions("generate") : ReturnedBefore("data", i)
    /\ \A i \in LogPositions("trainer") : ReturnedBefore("generate", i)
    /\ \A i \in LogPositions("train") :
          ReturnedBefore("data", i) /\ ReturnedBefore("trainer", i)
    /\ \A i \in LogPositions("export") : ReturnedBefore("train", i)
    /\ \A i \in LogPositions("banner") :
          /\ ReturnedBefore("data", i)
          /\ ReturnedBefore("train", i)
          /\ ReturnedBefore("export", i)
          /\ ReturnedBefore("cleanup", i)
    /\ orch_pc \in {"banner", "exit 0"} =>
          \A k \in 1..Len(Steps) : ReturnedBefore(Steps[k], Len(orch_log) + 1)
    /\ \A i \in TrySteps :
          orch_log[i].raised =>
             /\ \A j \in (i + 1)..Len(orch_log) : orch_log[j].step = "cleanup"
             /\ orch_pc \in {"cleanup", "except", "exit 1"}

\* a run whose data preparation raised has ended, and so has one that reached
\* the banner -- here the first: the data step raised and the process exited
C29_Witness ==
    /\ orch_pc = "exit 1"
    /\ \E i \in LogPositions("data") : orch_log[i].raised

\* ------------------------------------------------------------------ C30
\* the image the loop is about to read cannot be read
CurrentUnreadable ==
    cut_pc = "read" /\ ~imread(current_idx)

\* every access images[current_idx] so far was within [0, total - 1]
AccessInRange ==
    \A k \in 1..Len(cut_accessed) : cut_accessed[k] \in 0..(total_images - 1)

\* C30: the index is within [0, total-1] whenever an image is accessed, and
\* whenever the current image cannot be read the tool eventually shows a
\* readable image or exits.
C30_SkipsEnd ==
    /\ []AccessInRange
    /\ CurrentUnreadable ~> (cut_pc \in {"shown", "exited", "returned"})

====
